---- MODULE Spec2Model ----
(***************************************************************************)
(* Model of the hand-written promise code of slides.md:                    *)
(*   - getLeads with a concurrency limit ("Um Akshually", lines 137-164)   *)
(*   - getLeads with an AbortController ("Well Excuuuuuuse me!", 198-235)  *)
(*   - callWithRetry / getLead with retry ("Hard as steel", 257-278)       *)
(*                                                                         *)
(* JavaScript runs one handler at a time: an action of the model is one    *)
(* run-to-completion step (the synchronous body of getLeads, or the        *)
(* settlement of one getLead promise together with the then/catch handler  *)
(* that the settlement schedules).                                         *)
(***************************************************************************)
EXTENDS Integers, Sequences, FiniteSets, TLC

\* ---------------------------------------------------------------- bounds
MaxLen == 3          \* longest ids array drawn
MaxLimit == 3        \* largest explicit limit drawn
DefaultLimit == 5    \* limit = 5 / opts?.limit ?? 5
MaxRetryLimit == 2   \* largest explicit retry limit drawn
DefaultRetryLimit == 10   \* opts?.limit ?? 10
DefaultBase == 2          \* opts?.base ?? 2
DefaultExponent == 10     \* opts?.exponent ?? 10
DefaultCap == 2000        \* opts?.cap ?? 2000

Ids == {"1", "2"}

VARIABLES
  variant,     \* which getLeads runs: "limit" (137-164) or "abort" (202-235)
  ids,         \* argument ids: string[]
  optsLimit,   \* argument limit / opts.limit: <<k>>, or <<>> when left out
  signal,      \* opts.signal: "none", "idle" or "aborted"
  listening,   \* the "abort" listener of lines 208-210 is registered
  controller,  \* controller.signal.aborted
  phase,       \* "idle" before getLeads is called, "started" afterwards
  remaining,   \* const remaining: reversed [id, index] pairs
  results,     \* const results: unknown[] (index -> value, holes left out)
  pending,     \* let pending
  ops,         \* per index, the promise returned by getLead
  outcome,     \* the promise returned by getLeads
  extCancelled, \* history: opts.signal fired while the batch was still running
  outOfOrder,  \* history: a task resolved while a task before it had not
  late         \* history: kinds of handlers run after getLeads had rejected

\* the retry of "Hard as steel": concurrent calls of callWithRetry through
\* getLead(id, opts) of lines 274-278, all given the same opts.signal
VARIABLES
  retryOpts,   \* argument opts: RetryOptions, a field <<v>> or <<>> (left out)
  token,       \* opts.signal of getLead: "none", "idle" or "aborted"
  rpc,         \* per call: "idle", "fn" (awaiting fn()), "wait" (awaiting
               \* wait(ms)), "returned" or "thrown"
  depth,       \* per call: parameter depth of the innermost callWithRetry
  settled,     \* per call: the value returned or the error thrown
  invoked,     \* history, per call: number of invocations of fn
  waited,      \* history, per call: the delays passed to wait, in order
  invokedAborted, \* history, per call: fn was invoked with the token aborted
  abortedWaiting, \* history, per call: the token fired during a wait(ms)
  rejections,  \* history, per call: number of rejections of fn
  lastRejected \* history, per call: <<name>> of the error fn rejected with last

evars == <<variant, ids, optsLimit, signal, listening, controller, phase,
           remaining, results, pending, ops, outcome, extCancelled,
           outOfOrder, late>>
rvars == <<retryOpts, token, rpc, depth, settled, invoked, waited,
           invokedAborted, abortedWaiting, rejections, lastRejected>>
\* the retry loop driven by retrySchedule
VARIABLES
  sched,      \* the Schedule value handed to the driver
  driver,     \* the driver's ScheduleState, created on the first step
  spc,        \* "run" | "wait" | "halted" | "done"
  sdelay,     \* the delay of the wait in progress
  swaited,    \* sum of the delays waited so far
  ssteps      \* number of Continue decisions so far

svars == <<sched, driver, spc, sdelay, swaited, ssteps>>
vars == <<evars, rvars, svars>>

\* ------------------------------------------------------------ pure parts

\* the ids arrays drawn: every array over Ids of length 0..MaxLen
IdSeqs == UNION {[1..n -> Ids] : n \in 0..MaxLen}

\* const limit = opts?.limit ?? 5  /  (ids, limit = 5)
limit == IF optsLimit = <<>> THEN DefaultLimit ELSE optsLimit[1]

\* indices of ids, 0-based as in the source
Indices == 0..(Len(ids) - 1)

\* mutant: the pairs without .reverse()
NotReversed(xs) == [k \in 1..Len(xs) |-> <<xs[k], k - 1>>]

\* ids.slice(0, ids.length).map((id, index) => [id, index]).reverse()
Reversed(xs) ==
  [k \in 1..Len(xs) |-> <<xs[Len(xs) - k + 1], Len(xs) - k>>]

\* what getLead(id) resolves with: the lead fetched for that id
Lead(id) == <<"lead", id>>

\* results.length
Length(arr) ==
  IF DOMAIN arr = {} THEN 0
  ELSE (CHOOSE m \in DOMAIN arr : \A j \in DOMAIN arr : j <= m) + 1

\* mutant: results.push(res)
Push(arr, idx, res) ==
  [j \in (DOMAIN arr) \cup {Length(arr)} |-> IF j = Length(arr) THEN res ELSE arr[j]]

\* results[idx] = res on a JavaScript array
SetAt(arr, idx, res) ==
  [j \in (DOMAIN arr) \cup {idx} |-> IF j = idx THEN res ELSE arr[j]]

\* a promise settles once: resolve and reject of a settled promise do nothing
Pending == [state |-> "pending", value |-> <<>>]

resolve(o, v) ==
  IF o.state = "pending" THEN [state |-> "resolved", value |-> v] ELSE o

\* mutant: a reject that overwrites an earlier rejection
rejectAgain(o, err) ==
  IF o.state = "resolved" THEN o ELSE [state |-> "rejected", value |-> err]

reject(o, err) ==
  IF o.state = "pending" THEN [state |-> "rejected", value |-> err] ELSE o

\* errors: what fetch / res.json() reject with, tagged with the task
OwnErrors == {"TypeError", "SyntaxError"}
ErrorNames == OwnErrors \cup {"AbortError"}
\* what a getLead in flight can reject with, given controller.signal.aborted
RejectsWith(aborted) == IF aborted THEN {"AbortError"} ELSE OwnErrors
Error(name, idx) == [name |-> name, idx |-> idx]
IsCancelled(o) == o.state = "rejected" /\ o.value.name = "AbortError"

\* the closure state fetchRemaining works on
Closure == [remaining |-> remaining, results |-> results, pending |-> pending,
            ops |-> ops, outcome |-> outcome]

\* mutant: resolves as soon as the queue is empty (no "pending === 0" test)
fetchRemainingNoCount(s) ==
  IF Len(s.remaining) > 0
  THEN LET top == s.remaining[Len(s.remaining)]
       IN [s EXCEPT !.remaining = SubSeq(@, 1, Len(@) - 1),
                    !.pending = @ + 1,
                    !.ops[top[2]] = "running"]
  ELSE [s EXCEPT !.outcome = resolve(@, s.results)]

\* mutant: reads the last pair without popping it
fetchRemainingPeek(s) ==
  IF Len(s.remaining) > 0
  THEN LET top == s.remaining[Len(s.remaining)]
       IN [s EXCEPT !.pending = @ + 1, !.ops[top[2]] = "running"]
  ELSE IF s.pending = 0
       THEN [s EXCEPT !.outcome = resolve(@, s.results)]
       ELSE s

\* function fetchRemaining() { ... }: pops and starts the next task, or
\* resolves; the task's promise is in flight from here on
fetchRemaining(s) ==
  IF Len(s.remaining) > 0
  THEN LET top == s.remaining[Len(s.remaining)]   \* remaining.pop()!
       IN [s EXCEPT !.remaining = SubSeq(@, 1, Len(@) - 1),
                    !.pending = @ + 1,
                    !.ops[top[2]] = "running"]
  ELSE IF s.pending = 0
       THEN [s EXCEPT !.outcome = resolve(@, s.results)]
       ELSE s

\* for (let i = 0; i < limit; i++) fetchRemaining()
RECURSIVE Repeat(_, _)
Repeat(s, n) == IF n <= 0 THEN s ELSE Repeat(fetchRemaining(s), n - 1)

\* mutant: i <= limit
LoopOffByOne(s, n) == Repeat(s, n + 1)

\* the loop of the promise executor, run with n = limit
Loop(s, n) == Repeat(s, n)

\* mutant: the then handler forgets pending--
thenHandlerNoDecrement(s, idx, res) ==
  fetchRemaining([s EXCEPT !.results = SetAt(@, idx, res), !.ops[idx] = "ok"])

\* mutant: the then handler frees its slot without refilling it, unless it was
\* the last one
thenHandlerNoRefill(s, idx, res) ==
  LET t == [s EXCEPT !.results = SetAt(@, idx, res),
                     !.pending = @ - 1,
                     !.ops[idx] = "ok"]
  IN IF t.pending = 0 THEN fetchRemaining(t) ELSE t

\* .then((res) => { results[idx] = res; pending--; fetchRemaining(); })
thenHandler(s, idx, res) ==
  fetchRemaining([s EXCEPT !.results = SetAt(@, idx, res),
                           !.pending = @ - 1,
                           !.ops[idx] = "ok"])

\* mutant: a catch handler that counts the failure as a completion
catchHandlerSwallow(s, idx, err) ==
  fetchRemaining([s EXCEPT !.pending = @ - 1, !.ops[idx] = "err"])

\* .catch((err) => { controller.abort(); reject(err); })
catchHandler(s, idx, err) ==
  [s EXCEPT !.outcome = reject(@, err), !.ops[idx] = "err"]

\* mutant: the catch handler flips the token instead of setting it
abortToggles(c) == IF variant = "abort" THEN ~c ELSE c

\* controller.abort() of the catch handler; the "limit" variant has none
abortOnFailure(c) == IF variant = "abort" THEN TRUE ELSE c

\* opts.signal.addEventListener("abort", () => controller.abort())
addEventListener(sig) == variant = "abort" /\ sig # "none"

\* mutant: a listener that does not abort the controller
onAbortIgnored(c) == c

\* the listener: () => { controller.abort(); }
onAbort(c) == IF listening THEN TRUE ELSE c

Install(s) ==
  /\ remaining' = s.remaining
  /\ results' = s.results
  /\ pending' = s.pending
  /\ ops' = s.ops
  /\ outcome' = s.outcome

\* ----------------------------------------------------------- retry, pure

\* the concurrent getLead calls
Calls == {"x", "y"}

Opt(field, default) == IF field = <<>> THEN default ELSE field[1]

\* { limit: 10, cap: 2000, base: 2, exponent: 10 } of getLead
SlideOpts == [limit |-> <<10>>, cap |-> <<2000>>, base |-> <<2>>, exponent |-> <<10>>]

\* the RetryOptions drawn
OptsDrawn ==
  {SlideOpts} \cup
  [limit : {<<k>> : k \in 0..MaxRetryLimit},
   cap : {<<>>, <<25>>}, base : {<<>>, <<3>>, <<0>>}, exponent : {<<>>, <<1>>}]

RECURSIVE Pow(_, _)
Pow(b, n) == IF n = 0 THEN 1 ELSE b * Pow(b, n - 1)

Min(a, b) == IF a <= b THEN a ELSE b

\* mutant: base and exponent taken for each other
DelaySwapped(o, d) ==
  Min(Pow(Opt(o.exponent, DefaultExponent), d) * Opt(o.base, DefaultBase),
      Opt(o.cap, DefaultCap))

\* Math.min((opts?.base ?? 2) ** depth * (opts?.exponent ?? 10), opts?.cap ?? 2000)
Delay(o, d) ==
  Min(Pow(Opt(o.base, DefaultBase), d) * Opt(o.exponent, DefaultExponent),
      Opt(o.cap, DefaultCap))

\* what the n-th invocation of fn resolves with in call c
Fetched(c, n) == <<"lead", c, n>>

\* if (depth > (opts?.limit ?? 10)) throw e
Exhausted(o, d) == d > Opt(o.limit, DefaultRetryLimit)

\* ------------------------------------------------------------- schedules

BaseMs == 10
Factor == 2
IntervalMs == 1000
BudgetMs == 30000
MaxDelayMs == 1000000

\* the closed set of Schedule node kinds
Exponential(b, f) == [kind |-> "Exponential", base |-> b, factor |-> f]
Spaced(i) == [kind |-> "Spaced", interval |-> i]
Either(l, r) == [kind |-> "Either", left |-> l, right |-> r]
UpTo(m, s) == [kind |-> "UpTo", maxElapsed |-> m, inner |-> s]

\* pipe(exponential(b, f), either(spaced(i)), upTo(m))
Backoff(b, f, i, m) == UpTo(m, Either(Exponential(b, f), Spaced(i)))

retrySchedule == Backoff(BaseMs, Factor, IntervalMs, BudgetMs)

\* the schedules a driver is given: the slide's, and the same pipe with
\* other durations
SchedulesDrawn ==
  {retrySchedule} \cup
  {Backoff(b, Factor, i, m) : b \in {BaseMs, 300}, i \in {IntervalMs, 200},
                              m \in {5000, 1500, 0}}

\* base * factor^n; durations past MaxDelayMs, which is longer than every
\* interval and budget drawn, are kept as MaxDelayMs
RECURSIVE Scaled(_, _, _)
Scaled(b, f, n) == IF n = 0 THEN Min(b, MaxDelayMs)
                   ELSE Min(f * Scaled(b, f, n - 1), MaxDelayMs)

Halt(st) == [halt |-> TRUE, delay |-> 0, next |-> st]
Continue(d, st) == [halt |-> FALSE, delay |-> d, next |-> st]

RECURSIVE initial(_)
initial(s) ==
  CASE s.kind = "Exponential" -> [n |-> 0]
    [] s.kind = "Spaced" -> [n |-> 0]
    [] s.kind = "Either" -> [left |-> initial(s.left), right |-> initial(s.right)]
    [] s.kind = "UpTo" -> [elapsed |-> 0, inner |-> initial(s.inner)]

upToHaltsLate(elapsed, delay, maxElapsed) == elapsed > maxElapsed

\* upTo: "once cumulative elapsed would exceed maxElapsed"
upToHalts(elapsed, delay, maxElapsed) == elapsed + delay > maxElapsed

\* the evaluator: (schedule, state) -> Halt | Continue(delay, nextState)
RECURSIVE decide(_, _)
decide(s, st) ==
  CASE s.kind = "Exponential" ->
         Continue(Scaled(s.base, s.factor, st.n), [n |-> st.n + 1])
    [] s.kind = "Spaced" -> Continue(s.interval, [n |-> st.n + 1])
    [] s.kind = "Either" ->
         LET l == decide(s.left, st.left)
             r == decide(s.right, st.right)
             nx == [left |-> l.next, right |-> r.next]
         IN IF l.halt /\ r.halt THEN Halt(st)
            ELSE IF l.halt THEN Continue(r.delay, nx)
            ELSE IF r.halt THEN Continue(l.delay, nx)
            ELSE Continue(Min(l.delay, r.delay), nx)
    [] s.kind = "UpTo" ->
         LET d == decide(s.inner, st.inner)
         IN IF d.halt \/ upToHalts(st.elapsed, d.delay, s.maxElapsed)
            THEN Halt(st)
            ELSE Continue(d.delay, [elapsed |-> st.elapsed + d.delay,
                                    inner |-> d.next])

\* ScheduleDriver.step: the state is created on the first step
step(s, dr) == decide(s, IF dr.started THEN dr.state ELSE initial(s))

\* ---------------------------------------------------------------- state

\* no retry loop under a schedule: the state the other specifications leave
\* untouched
NoSchedule ==
  /\ sched = retrySchedule /\ driver = [started |-> FALSE, state |-> <<>>]
  /\ spc = "run" /\ sdelay = 0 /\ swaited = 0 /\ ssteps = 0

\* no getLeads call: the state the retry specification leaves untouched
NoBatch ==
  /\ variant = "limit" /\ ids = <<>> /\ optsLimit = <<>> /\ signal = "none"
  /\ listening = FALSE /\ controller = FALSE /\ phase = "idle"
  /\ remaining = <<>> /\ results = <<>> /\ pending = 0
  /\ ops = <<>> /\ outcome = Pending
  /\ extCancelled = FALSE /\ outOfOrder = FALSE /\ late = {}

\* no callWithRetry call: the state the batch specification leaves untouched
NoRetry ==
  /\ retryOpts = SlideOpts /\ token = "none"
  /\ rpc = [c \in Calls |-> "idle"]
  /\ depth = [c \in Calls |-> 0]
  /\ settled = [c \in Calls |-> <<>>]
  /\ invoked = [c \in Calls |-> 0]
  /\ waited = [c \in Calls |-> <<>>]
  /\ invokedAborted = [c \in Calls |-> FALSE]
  /\ abortedWaiting = [c \in Calls |-> FALSE]
  /\ rejections = [c \in Calls |-> 0]
  /\ lastRejected = [c \in Calls |-> <<>>]

Init ==
  /\ NoRetry /\ NoSchedule
  /\ variant \in {"limit", "abort"}
  /\ ids \in IdSeqs
  /\ optsLimit \in {<<>>} \cup {<<k>> : k \in 1..MaxLimit}
  /\ signal \in IF variant = "abort" THEN {"none", "idle", "aborted"} ELSE {"none"}
  /\ listening = FALSE
  /\ controller = FALSE
  /\ phase = "idle"
  /\ remaining = <<>>
  /\ results = <<>>
  /\ pending = 0
  /\ ops = [i \in Indices |-> "idle"]
  /\ outcome = Pending
  /\ extCancelled = FALSE
  /\ outOfOrder = FALSE
  /\ late = {}

\* the call getLeads(ids, opts): its synchronous body
getLeads ==
  /\ phase = "idle"
  /\ phase' = "started"
  /\ controller' = FALSE                      \* new AbortController()
  /\ listening' = addEventListener(signal)
  /\ Install(Loop([Closure EXCEPT !.remaining = Reversed(ids),
                                  !.results = <<>>,
                                  !.pending = 0], limit))
  /\ UNCHANGED <<variant, ids, optsLimit, signal, extCancelled, outOfOrder, late>>
  /\ UNCHANGED <<rvars, svars>>

\* getLead(id, {signal}) resolves: fetch answered and the body parsed.
\* An aborted signal makes fetch and res.json() reject, so no resolution then.
Succeed(i) ==
  /\ phase = "started" /\ i \in Indices /\ ops[i] = "running"
  /\ ~controller
  /\ Install(thenHandler(Closure, i, Lead(ids[i + 1])))
  /\ outOfOrder' = (outOfOrder \/ \E j \in 0..(i - 1) : ops[j] \in {"idle", "running"})
  /\ late' = (IF outcome.state = "rejected" THEN late \cup {"then"} ELSE late)
  /\ UNCHANGED <<variant, ids, optsLimit, signal, listening, controller, phase,
                 extCancelled>>
  /\ UNCHANGED <<rvars, svars>>

\* mutant: the catch handler aborts the caller's signal too
FailAbortsParent(i, name) ==
  /\ phase = "started" /\ i \in Indices /\ ops[i] = "running"
  /\ name \in RejectsWith(controller)
  /\ Install(catchHandler(Closure, i, Error(name, i)))
  /\ controller' = abortOnFailure(controller)
  /\ signal' = (IF signal = "idle" THEN "aborted" ELSE signal)
  /\ late' = (IF outcome.state = "rejected" THEN late \cup {"catch"} ELSE late)
  /\ UNCHANGED <<variant, ids, optsLimit, listening, phase, extCancelled,
                 outOfOrder>>
  /\ UNCHANGED <<rvars, svars>>

\* getLead(id, {signal}) rejects: with an AbortError once the signal is
\* aborted, with fetch's or json()'s own error otherwise
Fail(i, name) ==
  /\ phase = "started" /\ i \in Indices /\ ops[i] = "running"
  /\ name \in RejectsWith(controller)
  /\ Install(catchHandler(Closure, i, Error(name, i)))
  /\ controller' = abortOnFailure(controller)
  /\ late' = (IF outcome.state = "rejected" THEN late \cup {"catch"} ELSE late)
  /\ UNCHANGED <<variant, ids, optsLimit, signal, listening, phase, extCancelled,
                 outOfOrder>>
  /\ UNCHANGED <<rvars, svars>>

\* the caller aborts opts.signal: the "abort" event fires once
ExternalAbort ==
  /\ signal = "idle"
  /\ signal' = "aborted"
  /\ controller' = onAbort(controller)
  /\ extCancelled' = (extCancelled \/ (phase = "started" /\ outcome.state = "pending"))
  /\ UNCHANGED <<variant, ids, optsLimit, listening, phase, remaining, results,
                 pending, ops, outcome, outOfOrder, late>>
  /\ UNCHANGED <<rvars, svars>>

Settle(i) == Succeed(i) \/ \E name \in ErrorNames : Fail(i, name)

Next ==
  \/ getLeads
  \/ \E i \in Indices : Succeed(i)
  \/ \E i \in Indices, name \in ErrorNames : Fail(i, name)
  \/ ExternalAbort

Spec == Init /\ [][Next]_vars

\* ---------------------------------------------------------- retry, state

RetryInit ==
  /\ NoBatch /\ NoSchedule
  /\ retryOpts \in OptsDrawn
  /\ token \in {"none", "idle", "aborted"}
  /\ rpc = [c \in Calls |-> "idle"]
  /\ depth = [c \in Calls |-> 0]
  /\ settled = [c \in Calls |-> <<>>]
  /\ invoked = [c \in Calls |-> 0]
  /\ waited = [c \in Calls |-> <<>>]
  /\ invokedAborted = [c \in Calls |-> FALSE]
  /\ abortedWaiting = [c \in Calls |-> FALSE]
  /\ rejections = [c \in Calls |-> 0]
  /\ lastRejected = [c \in Calls |-> <<>>]

\* try { return await fn() }: fn is invoked, its promise is awaited
InvokeFn(c) ==
  /\ rpc' = [rpc EXCEPT ![c] = "fn"]
  /\ invoked' = [invoked EXCEPT ![c] = @ + 1]
  /\ invokedAborted' = [invokedAborted EXCEPT ![c] = @ \/ token = "aborted"]

\* getLead(id, opts): callWithRetry(fn, {...}) with depth = 0
getLead(c) ==
  /\ rpc[c] = "idle"
  /\ depth' = [depth EXCEPT ![c] = 0]
  /\ InvokeFn(c)
  /\ UNCHANGED <<retryOpts, token, settled, waited, abortedWaiting, rejections,
                 lastRejected>>
  /\ UNCHANGED <<evars, svars>>

\* fn() resolves: return await fn()
FnResolves(c) ==
  /\ rpc[c] = "fn"
  /\ token # "aborted"
  /\ rpc' = [rpc EXCEPT ![c] = "returned"]
  /\ settled' = [settled EXCEPT ![c] = Fetched(c, invoked[c])]
  /\ UNCHANGED <<retryOpts, token, depth, invoked, waited, invokedAborted,
                 abortedWaiting, rejections, lastRejected>>
  /\ UNCHANGED <<evars, svars>>

\* mutant: the catch block recurses without awaiting wait(...)
FnRejectsNoWait(c, name) ==
  /\ rpc[c] = "fn"
  /\ name \in RejectsWith(token = "aborted")
  /\ IF Exhausted(retryOpts, depth[c])
     THEN /\ rpc' = [rpc EXCEPT ![c] = "thrown"]
          /\ settled' = [settled EXCEPT ![c] = <<name>>]
          /\ UNCHANGED <<depth, invoked>>
     ELSE /\ depth' = [depth EXCEPT ![c] = @ + 1]
          /\ invoked' = [invoked EXCEPT ![c] = @ + 1]
          /\ UNCHANGED <<rpc, settled>>
  /\ rejections' = [rejections EXCEPT ![c] = @ + 1]
  /\ lastRejected' = [lastRejected EXCEPT ![c] = <<name>>]
  /\ UNCHANGED <<retryOpts, token, waited, invokedAborted, abortedWaiting>>
  /\ UNCHANGED <<evars, svars>>

\* mutant: the catch block throws an error of its own when it gives up
FnRejectsSynthetic(c, name) ==
  /\ rpc[c] = "fn"
  /\ name \in RejectsWith(token = "aborted")
  /\ IF Exhausted(retryOpts, depth[c])
     THEN /\ rpc' = [rpc EXCEPT ![c] = "thrown"]
          /\ settled' = [settled EXCEPT ![c] = <<"RetriesExhausted">>]
          /\ UNCHANGED waited
     ELSE /\ rpc' = [rpc EXCEPT ![c] = "wait"]
          /\ waited' = [waited EXCEPT ![c] = Append(@, Delay(retryOpts, depth[c]))]
          /\ UNCHANGED settled
  /\ rejections' = [rejections EXCEPT ![c] = @ + 1]
  /\ lastRejected' = [lastRejected EXCEPT ![c] = <<name>>]
  /\ UNCHANGED <<retryOpts, token, depth, invoked, invokedAborted, abortedWaiting>>
  /\ UNCHANGED <<evars, svars>>

\* fn() rejects: catch (e) { if (depth > limit) throw e; await wait(...) }
FnRejects(c, name) ==
  /\ rpc[c] = "fn"
  /\ name \in RejectsWith(token = "aborted")
  /\ IF Exhausted(retryOpts, depth[c])
     THEN /\ rpc' = [rpc EXCEPT ![c] = "thrown"]
          /\ settled' = [settled EXCEPT ![c] = <<name>>]
          /\ UNCHANGED waited
     ELSE /\ rpc' = [rpc EXCEPT ![c] = "wait"]
          /\ waited' = [waited EXCEPT ![c] = Append(@, Delay(retryOpts, depth[c]))]
          /\ UNCHANGED settled
  /\ rejections' = [rejections EXCEPT ![c] = @ + 1]
  /\ lastRejected' = [lastRejected EXCEPT ![c] = <<name>>]
  /\ UNCHANGED <<retryOpts, token, depth, invoked, invokedAborted, abortedWaiting>>
  /\ UNCHANGED <<evars, svars>>

\* mutant: depth is one counter that every running call chain advances
TimerFiresSharedDepth(c) ==
  /\ rpc[c] = "wait"
  /\ depth' = [d \in Calls |-> IF rpc[d] = "idle" THEN depth[d] ELSE depth[d] + 1]
  /\ InvokeFn(c)
  /\ UNCHANGED <<retryOpts, token, settled, waited, abortedWaiting, rejections,
                 lastRejected>>
  /\ UNCHANGED <<evars, svars>>

\* the timer of wait(ms) fires: return callWithRetry(fn, opts, depth + 1)
TimerFires(c) ==
  /\ rpc[c] = "wait"
  /\ depth' = [depth EXCEPT ![c] = @ + 1]
  /\ InvokeFn(c)
  /\ UNCHANGED <<retryOpts, token, settled, waited, abortedWaiting, rejections,
                 lastRejected>>
  /\ UNCHANGED <<evars, svars>>

\* the caller aborts opts.signal of the getLead calls
AbortToken ==
  /\ token = "idle"
  /\ token' = "aborted"
  /\ abortedWaiting' = [c \in Calls |-> abortedWaiting[c] \/ rpc[c] = "wait"]
  /\ UNCHANGED <<retryOpts, rpc, depth, settled, invoked, waited, invokedAborted,
                 rejections, lastRejected>>
  /\ UNCHANGED <<evars, svars>>

RetryNext ==
  \/ \E c \in Calls : getLead(c)
  \/ \E c \in Calls : FnResolves(c)
  \/ \E c \in Calls, name \in ErrorNames : FnRejects(c, name)
  \/ \E c \in Calls : TimerFires(c)
  \/ AbortToken

RetrySpec == RetryInit /\ [][RetryNext]_vars

\* every started operation eventually settles, and getLeads is called
LiveSpec ==
  /\ Init /\ [][Next]_vars
  /\ WF_vars(getLeads)
  /\ \A i \in 0..(MaxLen - 1) : WF_vars(Settle(i))

\* ------------------------------------------------------- schedule, state

SchedInit ==
  /\ NoBatch /\ NoRetry
  /\ sched \in SchedulesDrawn
  /\ driver = [started |-> FALSE, state |-> <<>>]
  /\ spc = "run" /\ sdelay = 0 /\ swaited = 0 /\ ssteps = 0

\* the operation succeeds: the loop returns its value
OpSucceeds ==
  /\ spc = "run"
  /\ spc' = "done"
  /\ UNCHANGED <<sched, driver, sdelay, swaited, ssteps>>
  /\ UNCHANGED <<evars, rvars>>

\* the operation fails with a retryable error: the driver is stepped, and the
\* loop either surfaces the error (Halt) or starts waiting (Continue)
OpFails ==
  /\ spc = "run"
  /\ LET d == step(sched, driver)
     IN IF d.halt
        THEN /\ spc' = "halted"
             /\ UNCHANGED <<driver, sdelay, ssteps>>
        ELSE /\ spc' = "wait"
             /\ driver' = [started |-> TRUE, state |-> d.next]
             /\ sdelay' = d.delay
             /\ ssteps' = ssteps + 1
  /\ UNCHANGED <<sched, swaited>>
  /\ UNCHANGED <<evars, rvars>>

\* the wait ends: the operation is invoked again
WaitEnds ==
  /\ spc = "wait"
  /\ spc' = "run"
  /\ swaited' = swaited + sdelay
  /\ UNCHANGED <<sched, driver, sdelay, ssteps>>
  /\ UNCHANGED <<evars, rvars>>

SchedNext == OpSucceeds \/ OpFails \/ WaitEnds

SchedSpec == SchedInit /\ [][SchedNext]_vars

\* --------------------------------------------------------------- helpers
InFlight == {i \in Indices : ops[i] = "running"}
NoFailure == \A i \in Indices : ops[i] # "err"

Running == phase = "started" /\ outcome.state = "pending"

\* the indices of the tasks in a queue of [id, index] pairs
QueueIdx(q) == {q[k][2] : k \in 1..Len(q)}

\* ---------------------------------------------------------------- claims

\* C1: in every reachable state the number of getLead operations started and
\* not yet settled is at most limit, also after a failure or an abort.
C1_BoundedConcurrency == Cardinality(InFlight) <= limit

\* the cap is reached again after a completed task was replaced from the queue
C1_Witness ==
  /\ Cardinality(InFlight) = limit
  /\ \E i \in Indices : ops[i] = "ok"
  /\ Len(remaining) > 0

\* C2: whenever the batch resolves, the resolved array has one element per
\* input and its i-th element is the lead of the i-th id, whatever the order
\* the operations completed in.
C2_Ordering ==
  outcome.state = "resolved" =>
    /\ Length(outcome.value) = Len(ids)
    /\ DOMAIN outcome.value = Indices
    /\ \A i \in Indices : outcome.value[i] = Lead(ids[i + 1])

\* resolved after completions out of input order, with different leads
C2_Witness ==
  /\ outcome.state = "resolved"
  /\ outOfOrder
  /\ Len(ids) >= 2 /\ ids[1] # ids[2]
  /\ limit < Len(ids)

\* C3: once getLeads has rejected (first fatal failure), no task still in the
\* pending queue is dispatched any more.
C3_NoDispatchAfterFailure ==
  [][outcome.state = "rejected" => remaining' = remaining]_vars

\* C4: the first failure rejects the batch with that task's error, and a
\* settled batch never changes: no later failure replaces the error and no
\* later success turns it into a resolution.
C4_FailFastOutcome ==
  /\ [][\A i \in Indices :
         (Running /\ ops[i] = "running" /\ ops'[i] = "err")
            => (outcome'.state = "rejected" /\ outcome'.value.idx = i)]_vars
  /\ [][outcome.state = "rejected" =>
         (outcome'.state = "rejected" /\ outcome'.value = outcome.value)]_vars
  /\ [][outcome.state = "resolved" => outcome'.state = "resolved"]_vars

\* a sibling settled (with a value, and another with an error) after the
\* batch had been rejected by task 0
C4_Witness ==
  /\ outcome.state = "rejected" /\ outcome.value.idx = 0
  /\ late = {"then", "catch"}

\* C5: the batch is resolved exactly when, no task having failed, the queue
\* is empty and nothing is in flight; then every slot 0..n-1 holds its value.
C5_ExactResolution ==
  /\ outcome.state = "resolved" =>
       /\ remaining = <<>> /\ InFlight = {} /\ pending = 0
       /\ DOMAIN outcome.value = Indices
       /\ outcome.value = results
  /\ (phase = "started" /\ NoFailure /\ remaining = <<>> /\ InFlight = {})
       => outcome.state = "resolved"

\* fewer inputs than limit, all resolved
C5_Witness ==
  /\ outcome.state = "resolved"
  /\ 0 < Len(ids) /\ Len(ids) < limit

\* C6: if getLeads is called and every started operation settles, the batch
\* eventually leaves the pending state.
C6_BatchTerminates == <>(outcome.state # "pending")

C6_Witness ==
  /\ outcome.state = "resolved"
  /\ Len(ids) > limit

C8_LinkTriggeredParent ==
  [][(phase = "idle" /\ phase' = "started" /\ signal = "aborted") => controller']_vars

\* C9: an attempt is never started with the token already triggered: fn is
\* not invoked then.
C9_NoAttemptWhenCancelled == \A c \in Calls : ~invokedAborted[c]

\* C10: once the token has fired during a backoff wait of a call, that call
\* invokes fn no more and waits no further delay.
C10_CancellableWait ==
  [][\A c \in Calls :
       abortedWaiting[c] => (invoked'[c] = invoked[c] /\ waited'[c] = waited[c])]_vars

\* C15: a triggered controller stays triggered, and a further trigger (the
\* catch handler of another failing operation, or the listener of opts.signal
\* after a failure) leaves the token, the pending queue, the result slots and
\* a settled outcome as they were.
C15_TriggerIdempotent ==
  /\ [][controller => controller']_vars
  /\ [][(/\ controller
         /\ \/ variant = "abort" /\ \E i \in Indices : ops[i] = "running" /\ ops'[i] = "err"
            \/ listening /\ signal = "idle" /\ signal' = "aborted")
        => /\ controller'
           /\ remaining' = remaining
           /\ results' = results
           /\ outcome.state # "pending" => outcome' = outcome]_vars

\* a second operation failed and opts.signal fired, both after the failure
\* that triggered the controller
C15_Witness ==
  /\ controller /\ signal = "aborted" /\ ~extCancelled
  /\ "catch" \in late
  /\ outcome.state = "rejected" /\ outcome.value.name \in OwnErrors
  /\ Len(remaining) > 0

\* C16: once getLeads has rejected, no slot of results is written any more.
C16_NoLateWrites ==
  [][outcome.state = "rejected" => results' = results]_vars

\* C17: after the call each task is in exactly one of: in the queue (not yet
\* started), in flight, settled; a slot is written exactly for the resolved
\* tasks; a task that left the queue never re-enters it nor is started
\* again, and a written slot is never written again.
C17_TaskAccounting ==
  /\ [](phase = "started" =>
         /\ Cardinality(QueueIdx(remaining)) = Len(remaining)
         /\ \A i \in Indices :
              /\ i \in QueueIdx(remaining) <=> ops[i] = "idle"
              /\ i \in DOMAIN results <=> ops[i] = "ok")
  /\ [][\A i \in Indices :
         /\ (phase = "started" /\ i \notin QueueIdx(remaining))
               => i \notin QueueIdx(remaining')
         /\ ops'[i] = "running" => ops[i] \in {"idle", "running"}
         /\ i \in DOMAIN results =>
               (i \in DOMAIN results' /\ results'[i] = results[i])]_vars

\* one task queued, one in flight and one resolved at the same time
C17_Witness ==
  /\ phase = "started"
  /\ \E i, j, k \in Indices :
       /\ i \in QueueIdx(remaining)
       /\ ops[j] = "running"
       /\ ops[k] = "ok" /\ k \in DOMAIN results

\* C18: a task is started only when every task before it in ids has been
\* started.
C18_FifoDispatch ==
  \A i, j \in Indices : (i < j /\ ops[j] # "idle") => ops[i] # "idle"

\* the third task was started after the second resolved, the first in flight
C18_Witness ==
  /\ Len(ids) = 3 /\ limit = 2
  /\ ops[0] = "running" /\ ops[1] = "ok" /\ ops[2] = "running"

\* C19: the catch handler of a failing operation leaves opts.signal as it is.
C19_ParentUntouched ==
  [][(\E i \in Indices : ops[i] = "running" /\ ops'[i] = "err")
        => signal' = signal]_vars

\* the controller was triggered by a failure, opts.signal is not triggered
C19_Witness ==
  /\ controller /\ signal = "idle"
  /\ outcome.state = "rejected" /\ outcome.value.name \in OwnErrors

\* C11: once fn has rejected with the error of res.json(), the one the retry
\* classification marks fatal, the call has thrown that error: it neither
\* waits nor invokes fn again.
C11_FatalNotRetried ==
  \A c \in Calls :
    lastRejected[c] = <<"SyntaxError">> =>
      (rpc[c] = "thrown" /\ settled[c] = <<"SyntaxError">>)

\* C12: a call that returns after k rejections of fn has invoked fn k + 1
\* times, returns what the last invocation resolved with and has waited k
\* delays.
C12_RetryDeterminism ==
  \A c \in Calls :
    rpc[c] = "returned" =>
      /\ invoked[c] = rejections[c] + 1
      /\ settled[c] = Fetched(c, rejections[c] + 1)
      /\ Len(waited[c]) = rejections[c]

\* a success at the last attempt the budget allows
C12_Witness ==
  \E c \in Calls :
    /\ rpc[c] = "returned"
    /\ rejections[c] = Opt(retryOpts.limit, DefaultRetryLimit) + 1
    /\ rejections[c] >= 2

\* C13: fn is invoked at most limit + 2 times; when every invocation has
\* rejected the call has thrown, and what it throws is the error of the last
\* rejection of fn, unchanged.
C13_ExhaustionKeepsRootCause ==
  \A c \in Calls :
    /\ invoked[c] <= Opt(retryOpts.limit, DefaultRetryLimit) + 2
    /\ rejections[c] = Opt(retryOpts.limit, DefaultRetryLimit) + 2 => rpc[c] = "thrown"
    /\ rpc[c] = "thrown" =>
         (settled[c] = lastRejected[c] /\ rejections[c] = invoked[c])

C13_Witness ==
  \E c \in Calls :
    /\ rpc[c] = "thrown"
    /\ settled[c] = <<"TypeError">>
    /\ invoked[c] >= 3

\* C20 (as amended): the k-th delay a call waits is
\* min(exponent * base^(k-1), cap); it never exceeds cap, and the delays are
\* non-decreasing when base >= 1 and exponent >= 0.
C20_BackoffDelay ==
  \A c \in Calls : \A k \in 1..Len(waited[c]) :
    LET b == Opt(retryOpts.base, DefaultBase)
        e == Opt(retryOpts.exponent, DefaultExponent)
        cap == Opt(retryOpts.cap, DefaultCap)
    IN /\ waited[c][k] = Min(e * Pow(b, k - 1), cap)
       /\ waited[c][k] <= cap
       /\ (b >= 1 /\ e >= 0 /\ k > 1) => waited[c][k - 1] <= waited[c][k]

\* the slide's values: 10, 20, 40, ... up to the cap of 2000
C20_Witness ==
  \E c \in Calls :
    /\ Len(waited[c]) >= 9
    /\ waited[c][1] = 10 /\ waited[c][2] = 20 /\ waited[c][3] = 40
    /\ waited[c][8] = 1280 /\ waited[c][9] = 2000

\* C20 (as stated): the delays of a call are min(exponent * base^n, cap),
\* never above cap and non-decreasing, whatever the options.
C20_DelaysNonDecreasing ==
  \A c \in Calls : \A k \in 1..Len(waited[c]) :
    /\ waited[c][k] = Min(Opt(retryOpts.exponent, DefaultExponent)
                            * Pow(Opt(retryOpts.base, DefaultBase), k - 1),
                          Opt(retryOpts.cap, DefaultCap))
    /\ waited[c][k] <= Opt(retryOpts.cap, DefaultCap)
    /\ k > 1 => waited[c][k - 1] <= waited[c][k]

\* the delay either(exponential, spaced) proposes at its k-th step (k from 0)
Proposed(k) ==
  Min(Scaled(sched.inner.left.base, sched.inner.left.factor, k),
      sched.inner.right.interval)

RECURSIVE ProposedSum(_)
ProposedSum(k) == IF k = 0 THEN 0 ELSE ProposedSum(k - 1) + Proposed(k - 1)

\* C14: under upTo(either(exponential, spaced)) the driver answers Continue
\* while the cumulative delay stays within maxElapsed (30 s on the slide) and
\* Halt at the first step whose delay would take it past maxElapsed, so the
\* delays waited never sum to more than maxElapsed.
C14_ElapsedBudget ==
  /\ swaited + (IF spc = "wait" THEN sdelay ELSE 0) = ProposedSum(ssteps)
  /\ ProposedSum(ssteps) <= sched.maxElapsed
  /\ spc = "halted" => ProposedSum(ssteps + 1) > sched.maxElapsed

\* the slide's schedule has halted: 7 exponential delays, then 1 s each
C14_Witness ==
  /\ sched = retrySchedule /\ spc = "halted"
  /\ ssteps = 35 /\ swaited = 29270

\* C21: while no operation has failed, a non-empty queue means that exactly
\* limit operations are in flight: a freed slot is refilled in the same step.
C21_WorkConservation ==
  (phase = "started" /\ NoFailure /\ Len(remaining) > 0) =>
    /\ pending = limit
    /\ Cardinality(InFlight) = limit

\* a slot was freed and refilled by the next task, and work still remains
C21_Witness ==
  /\ phase = "started" /\ NoFailure /\ pending = limit
  /\ Len(remaining) > 0
  /\ \E i \in Indices : ops[i] = "ok" /\ (i + 1) \in InFlight

\* C22: with retry limit L, one call invokes fn at most L + 2 times, and
\* exactly L + 2 times when it throws (every invocation rejected; the throw
\* happens at depth L + 1); the depth of a call counts its own invocations
\* only, whatever the other call is doing.
C22_RetryBudget ==
  LET L == Opt(retryOpts.limit, DefaultRetryLimit)
  IN \A c \in Calls :
       /\ invoked[c] <= L + 2
       /\ rpc[c] = "thrown" =>
            /\ invoked[c] = L + 2
            /\ depth[c] = L + 1
       /\ rpc[c] # "idle" => depth[c] = invoked[c] - 1

\* one call has used up its budget while the other is still at its first wait
C22_Witness ==
  \E c, d \in Calls :
    /\ rpc[c] = "thrown"
    /\ rejections[c] = Opt(retryOpts.limit, DefaultRetryLimit) + 2
    /\ rejections[c] >= 3
    /\ rpc[d] = "wait" /\ depth[d] = 0

====
